---- MODULE Spec2Model ----
(***************************************************************************)
(* Model of stix2/registration.py: the conformance validator               *)
(* (_validate_ref_props, _validate_props) and the four registration        *)
(* operations over registry.STIX2_OBJ_MAPS.                                *)
(*                                                                         *)
(* Python strings that the code takes apart (property names, type          *)
(* identifiers) are sequences of one-character strings.  A dict is a       *)
(* sequence of [name, obj] entries with distinct names, in insertion order.*)
(***************************************************************************)
EXTENDS Integers, Sequences, FiniteSets, TLC

VARIABLES
    STIX2_OBJ_MAPS,   \* registry.STIX2_OBJ_MAPS: version -> namespace -> (type id -> class)
    DEFAULT_VERSION,  \* version.DEFAULT_VERSION, the process-wide setting
    call,             \* the registration call made last: [op, new_type, version]
    outcome,          \* how that call ended: [exc, ...]
    ncalls,           \* number of registration calls made so far
    props_map,        \* validator input: the property mapping
    v_version,        \* validator input: the version
    ref_result,       \* result of _validate_ref_props(props_map, v_version)
    props_result,     \* result of _validate_props(props_map, v_version)
    again_result,     \* result of a second _validate_props(props_map, v_version)
    thread,           \* per thread: its registration call and how far it got
    writes,           \* the threads that stored into a catalog, in order
    raced             \* a store happened while another thread had passed its
                      \* duplicate test on the same entry and not yet stored

vars == <<STIX2_OBJ_MAPS, DEFAULT_VERSION, call, outcome, ncalls,
          props_map, v_version, ref_result, props_result, again_result,
          thread, writes, raced>>
reg_vars == <<STIX2_OBJ_MAPS, DEFAULT_VERSION, call, outcome, ncalls>>
val_vars == <<props_map, v_version, ref_result, props_result, again_result>>
thr_vars == <<thread, writes, raced>>

----------------------------------------------------------------------------
(* Bounds *)

MaxProps == 2     \* longest property mapping handed to the validator
MaxCalls == 2     \* registration calls in one run
MaxBetween == 1   \* registration calls made while the validator is exercised

----------------------------------------------------------------------------
(* Python values *)

\* None as a version argument
None == "None"
\* None as an object (what getattr(..., None) yields)
NoObject == [cls |-> "NoneType"]
\* a call that leaves the version argument out
Omitted == "<omitted>"
\* a call that returned normally
Returned == [exc |-> "none"]
\* not yet called
NotRun == [exc |-> "not-run"]

Max(S) == CHOOSE m \in S : \A n \in S : n <= m
Min(S) == CHOOSE m \in S : \A n \in S : m <= n

\* dict(...).keys() of an insertion-ordered dict
Keys(d) == {d[i].name : i \in 1..Len(d)}
\* d[k] of an insertion-ordered dict (k in Keys(d))
Get(d, k) == d[CHOOSE i \in 1..Len(d) : d[i].name = k].obj

----------------------------------------------------------------------------
(* stix2.properties: the property classes the validator tests for *)

StringProperty == [cls |-> "StringProperty"]
ReferenceProperty == [cls |-> "ReferenceProperty"]
ObjectReferenceProperty == [cls |-> "ObjectReferenceProperty"]
ListProperty(contained) == [cls |-> "ListProperty", contained |-> contained]
\* a property class that is no ListProperty but carries a `contained` attribute
CustomProperty(contained) == [cls |-> "CustomProperty", contained |-> contained]

\* isinstance(obj, types), types a set of class names
isinstance(obj, types) == obj.cls \in types

\* getattr(obj, "contained", None)
getattr_contained(obj) ==
    IF "contained" \in DOMAIN obj THEN obj.contained ELSE NoObject

----------------------------------------------------------------------------
(* Strings *)

Alpha == {"a", "b", "c", "d", "e", "f", "g", "h", "i", "j", "k", "l", "m",
          "n", "o", "p", "q", "r", "s", "t", "u", "v", "w", "x", "y", "z"}
Digit == {"0", "1", "2", "3", "4", "5", "6", "7", "8", "9"}

\* s.rsplit("_", 1)[-1]: the text after the last underscore, or all of s
rsplit_tail(s) ==
    LET us == {i \in 1..Len(s) : s[i] = "_"}
    IN  IF us = {} THEN s ELSE SubSeq(s, Max(us) + 1, Len(s))

\* s.endswith(suffix)
endswith(s, suffix) ==
    /\ Len(s) >= Len(suffix)
    /\ SubSeq(s, Len(s) - Len(suffix) + 1, Len(s)) = suffix

\* s.startswith(prefix)
startswith(s, prefix) ==
    /\ Len(s) >= Len(prefix)
    /\ SubSeq(s, 1, Len(prefix)) = prefix

\* re.match(PREFIX_21_REGEX, s): s begins with an alphabetic character
match_PREFIX_21_REGEX(s) == Len(s) > 0 /\ s[1] \in Alpha

----------------------------------------------------------------------------
(* The conformance validator *)

_VERSION_REF_TYPES_MAP ==
    "2.0" :> {"ObjectReferenceProperty", "ReferenceProperty"} @@
    "2.1" :> {"ReferenceProperty"}

_UNKNOWN_VERSION_REF_TYPES == _VERSION_REF_TYPES_MAP["2.1"]

\* the lookup falling back to the most lenient entry of the table
ref_prop_types_for_lenient(version) ==
    IF version \in DOMAIN _VERSION_REF_TYPES_MAP
    THEN _VERSION_REF_TYPES_MAP[version]
    ELSE _VERSION_REF_TYPES_MAP["2.0"]

\* the try/except KeyError lookup at the head of _validate_ref_props
ref_prop_types_for(version) ==
    IF version \in DOMAIN _VERSION_REF_TYPES_MAP
    THEN _VERSION_REF_TYPES_MAP[version]
    ELSE _UNKNOWN_VERSION_REF_TYPES

\* the `tail == "ref" and not isinstance(...)` arm
ref_violation(prop_name, prop_obj, ref_prop_types) ==
    /\ rsplit_tail(prop_name) = <<"r", "e", "f">>
    /\ ~ isinstance(prop_obj, ref_prop_types)

\* the `tail == "refs"` arm with any((...)) in place of all((...))
refs_violation_any(prop_name, prop_obj, ref_prop_types) ==
    /\ rsplit_tail(prop_name) = <<"r", "e", "f", "s">>
    /\ ~ ( \/ isinstance(prop_obj, {"ListProperty"})
           \/ isinstance(getattr_contained(prop_obj), ref_prop_types) )

\* the `tail == "refs" and not all((...))` arm
refs_violation(prop_name, prop_obj, ref_prop_types) ==
    /\ rsplit_tail(prop_name) = <<"r", "e", "f", "s">>
    /\ ~ ( /\ isinstance(prop_obj, {"ListProperty"})
           /\ isinstance(getattr_contained(prop_obj), ref_prop_types) )

\* _validate_ref_props(props_map, version): Returned, or the ValueError of
\* the first entry, in iteration order, that one of the two arms rejects
_validate_ref_props(props, version) ==
    LET ref_prop_types == ref_prop_types_for(version)
        bad == {i \in 1..Len(props) :
                   \/ ref_violation(props[i].name, props[i].obj, ref_prop_types)
                   \/ refs_violation(props[i].name, props[i].obj, ref_prop_types)}
    IN  IF bad = {} THEN Returned
        ELSE LET i == Min(bad)
             IN  [exc |-> "ValueError",
                  why |-> IF ref_violation(props[i].name, props[i].obj, ref_prop_types)
                          THEN "not-a-reference" ELSE "not-a-reference-list",
                  prop_name |-> props[i].name]

\* the naming loop entered only when version == "2.1"
naming_violations_only_21(props, version) ==
    IF version = "2.1"
    THEN {i \in 1..Len(props) : ~ match_PREFIX_21_REGEX(props[i].name)}
    ELSE {}

\* the naming loop of _validate_props, entered when version != "2.0"
naming_violations(props, version) ==
    IF version # "2.0"
    THEN {i \in 1..Len(props) : ~ match_PREFIX_21_REGEX(props[i].name)}
    ELSE {}

\* _validate_props(props_map, version)
_validate_props(props, version) ==
    LET bad == naming_violations(props, version)
    IN  IF bad # {}
        THEN [exc |-> "ValueError", why |-> "not-alpha",
              prop_name |-> props[Min(bad)].name]
        ELSE _validate_ref_props(props, version)

----------------------------------------------------------------------------
(* Validator inputs *)

n_x_ref == <<"x", "_", "r", "e", "f">>
n_x_refs == <<"x", "_", "r", "e", "f", "s">>
n_ref_count == <<"r", "e", "f", "_", "c", "o", "u", "n", "t">>
n_1bad == <<"1", "b", "a", "d">>
n_name == <<"n", "a", "m", "e">>
n_ref == <<"r", "e", "f">>

PropNames == {n_x_ref, n_x_refs, n_ref_count, n_1bad, n_name, n_ref}

PropObjs == {StringProperty, ReferenceProperty, ObjectReferenceProperty,
             ListProperty(ReferenceProperty),
             ListProperty(ObjectReferenceProperty),
             CustomProperty(ReferenceProperty)}

\* "2.2" stands for a version the table does not know
Versions == {"2.0", "2.1", "2.2", None}

Entries == [name : PropNames, obj : PropObjs]

\* the property mappings of at most MaxProps entries (keys are distinct)
PropMaps ==
    {d \in UNION {[1..n -> Entries] : n \in 0..MaxProps} :
        \A i, j \in 1..Len(d) : d[i].name = d[j].name => i = j}

----------------------------------------------------------------------------
(* Type identifiers *)

\* "foo-ext"
id_foo_ext == <<"f", "o", "o", "-", "e", "x", "t">>
\* "foo-bar"
id_foo_bar == <<"f", "o", "o", "-", "b", "a", "r">>
\* "bar-ext"
id_bar_ext == <<"b", "a", "r", "-", "e", "x", "t">>
\* "baz-ext"
id_baz_ext == <<"b", "a", "z", "-", "e", "x", "t">>
\* "Foo"
id_Foo == <<"F", "o", "o">>
\* "-ext"
sfx_ext == <<"-", "e", "x", "t">>
\* "extension-definition--"
pfx_extension_definition ==
    <<"e", "x", "t", "e", "n", "s", "i", "o", "n", "-", "d", "e", "f",
      "i", "n", "i", "t", "i", "o", "n", "-", "-">>
\* "6f1b1b0c-2f43-4c0e-9d6a-0a5e3c1d7b42"
uuid_token ==
    <<"6", "f", "1", "b", "1", "b", "0", "c", "-", "2", "f", "4", "3",
      "-", "4", "c", "0", "e", "-", "9", "d", "6", "a", "-", "0", "a", "5",
      "e", "3", "c", "1", "d", "7", "b", "4", "2">>
\* "zzz"
non_uuid_token == <<"z", "z", "z">>

id_ext_def_uuid == pfx_extension_definition \o uuid_token
id_ext_def_zzz == pfx_extension_definition \o non_uuid_token

----------------------------------------------------------------------------
(* Candidate classes: what the declaration mechanism hands to registration. *)
(* A class is known by its name; the catalogs hold class names, as the     *)
(* Python dicts hold references to the class objects.                      *)

E(name, obj) == [name |-> name, obj |-> obj]

ClassTable ==
    \* declared domain object, conforms under every version
    "NameOnly" :>
        [_type |-> id_foo_ext, domain |-> TRUE,
         _properties |-> <<E(n_name, StringProperty)>>] @@
    \* a second declared domain object under the same identifier
    "WithRef" :>
        [_type |-> id_foo_ext, domain |-> TRUE,
         _properties |-> <<E(n_x_ref, ReferenceProperty)>>] @@
    \* not declared through @CustomObject; breaks both validation rules
    "Undeclared" :>
        [_type |-> id_foo_ext, domain |-> FALSE,
         _properties |-> <<E(n_1bad, StringProperty),
                           E(n_x_ref, StringProperty)>>] @@
    \* a property name with a leading digit
    "DigitProp" :>
        [_type |-> id_foo_bar, domain |-> TRUE,
         _properties |-> <<E(n_1bad, StringProperty)>>] @@
    \* extension-definition-- followed by a token that is no UUID
    "NonUuidExt" :>
        [_type |-> id_ext_def_zzz, domain |-> FALSE,
         _properties |-> <<>>,
         _toplevel_properties |->
             <<E(n_x_refs, ListProperty(ReferenceProperty))>>] @@
    \* extension-definition--<UUID>
    "UuidExt" :>
        [_type |-> id_ext_def_uuid, domain |-> FALSE,
         _properties |-> <<E(n_name, StringProperty)>>] @@
    \* an identifier of invalid shape and no property at all
    "BadId" :>
        [_type |-> id_Foo, domain |-> TRUE,
         _properties |-> <<>>] @@
    \* a valid identifier and no property at all
    "NoProps" :>
        [_type |-> id_bar_ext, domain |-> FALSE,
         _properties |-> <<>>, _toplevel_properties |-> <<>>] @@
    \* x_ref defined twice: the top-level definition is a reference
    "TopRef" :>
        [_type |-> id_baz_ext, domain |-> FALSE,
         _properties |-> <<E(n_x_ref, StringProperty)>>,
         _toplevel_properties |-> <<E(n_x_ref, ReferenceProperty)>>] @@
    \* x_ref defined twice: the own definition is a reference
    "OwnRef" :>
        [_type |-> id_baz_ext, domain |-> FALSE,
         _properties |-> <<E(n_x_ref, ReferenceProperty)>>,
         _toplevel_properties |-> <<E(n_x_ref, StringProperty)>>]

Classes == DOMAIN ClassTable

_type(c) == ClassTable[c]._type
_properties(c) == ClassTable[c]._properties
\* issubclass(c, _DomainObject)
issubclass_DomainObject(c) == ClassTable[c].domain
\* getattr(c, "_toplevel_properties", dict())
getattr_toplevel_properties(c) ==
    IF "_toplevel_properties" \in DOMAIN ClassTable[c]
    THEN ClassTable[c]._toplevel_properties ELSE <<>>

\* the merge with the first definition of a key kept: {**b, **a} in value
dict_merge_first_wins(a, b) ==
    a \o SelectSeq(b, LAMBDA e : e.name \notin Keys(a))

\* {**a, **b}: a's keys in a's order with b's values where b has the key,
\* then b's other keys in b's order
dict_merge(a, b) ==
    [i \in 1..Len(a) |->
        IF a[i].name \in Keys(b) THEN E(a[i].name, Get(b, a[i].name)) ELSE a[i]]
    \o SelectSeq(b, LAMBDA e : e.name \notin Keys(a))

----------------------------------------------------------------------------
(* Collaborators of the registration module *)

\* properties._validate_type(type, spec_version): the identifier-shape check
_validate_type(type, spec_version) ==
    IF /\ \A i \in 1..Len(type) : type[i] \in Alpha \cup Digit \cup {"-"}
       /\ spec_version # "2.0" => (Len(type) > 0 /\ type[1] \in Alpha)
       /\ Len(type) >= 3
    THEN Returned
    ELSE [exc |-> "ValueError", why |-> "invalid-type-name", name |-> type]

DuplicateRegistrationError(category, type) ==
    [exc |-> "DuplicateRegistrationError", category |-> category, type |-> type]

Namespaces == {"objects", "markings", "observables", "extensions"}

\* the versions that have a catalog
KnownVersions == {"2.0", "2.1"}

\* a catalog with nothing registered
EmptyMap == [k \in {} |-> "NameOnly"]

\* registry.STIX2_OBJ_MAPS at process start
InitialMaps == [v \in KnownVersions |-> [ns \in Namespaces |-> EmptyMap]]

\* the value `version.DEFAULT_VERSION` has when the module is loaded, which
\* the `def` statements bind as the default of their version parameter
LoadTimeDefaultVersion == "2.1"

----------------------------------------------------------------------------
(* The registration operations.  Each yields [outcome, maps]: how the call *)
(* ends and the value of registry.STIX2_OBJ_MAPS after it.                 *)

\* the value of the parameter `version` on entry
param_version(version_arg) ==
    IF version_arg = Omitted THEN LoadTimeDefaultVersion ELSE version_arg

\* `not version`
falsy(version) == version \in {None, ""}

Raise(e, maps) == [outcome |-> e, maps |-> maps]

KeyError(key) == [exc |-> "KeyError", key |-> key]

\* `version = version.DEFAULT_VERSION` where `version` is the falsy parameter
AttributeError == [exc |-> "AttributeError", attr |-> "DEFAULT_VERSION"]

\* m.setdefault(key, cls): an entry already there is kept
setitem_if_absent(maps, version, ns, key, cls) ==
    [maps EXCEPT ![version][ns] = @ @@ (key :> cls)]

\* m[key] = cls
setitem(maps, version, ns, key, cls) ==
    [maps EXCEPT ![version][ns] = (key :> cls) @@ @]

\* _register_object without the `in OBJ_MAP.keys()` test
_register_object_no_dup_check(new_type, version_arg, maps) ==
    LET version == param_version(version_arg)
        checked == _validate_props(_properties(new_type), version)
    IN  IF ~ issubclass_DomainObject(new_type)
        THEN Raise([exc |-> "ValueError", why |-> "not-custom-object",
                    name |-> new_type], maps)
        ELSE IF falsy(version) THEN Raise(AttributeError, maps)
        ELSE IF checked # Returned THEN Raise(checked, maps)
        ELSE IF version \notin DOMAIN maps THEN Raise(KeyError(version), maps)
        ELSE [outcome |-> Returned,
              maps |-> setitem(maps, version, "objects", _type(new_type), new_type)]

\* _register_object validating the properties before the issubclass test
_register_object_validate_first(new_type, version_arg, maps) ==
    LET version == param_version(version_arg)
        checked == _validate_props(_properties(new_type), version)
    IN  IF falsy(version) THEN Raise(AttributeError, maps)
        ELSE IF checked # Returned THEN Raise(checked, maps)
        ELSE IF ~ issubclass_DomainObject(new_type)
        THEN Raise([exc |-> "ValueError", why |-> "not-custom-object",
                    name |-> new_type], maps)
        ELSE IF version \notin DOMAIN maps THEN Raise(KeyError(version), maps)
        ELSE IF _type(new_type) \in DOMAIN maps[version]["objects"]
        THEN Raise(DuplicateRegistrationError("STIX Object", _type(new_type)), maps)
        ELSE [outcome |-> Returned,
              maps |-> setitem(maps, version, "objects", _type(new_type), new_type)]

_register_object(new_type, version_arg, maps) ==
    LET version == param_version(version_arg)
        checked == _validate_props(_properties(new_type), version)
    IN  IF ~ issubclass_DomainObject(new_type)
        THEN Raise([exc |-> "ValueError", why |-> "not-custom-object",
                    name |-> new_type], maps)
        ELSE IF falsy(version) THEN Raise(AttributeError, maps)
        ELSE IF checked # Returned THEN Raise(checked, maps)
        ELSE IF version \notin DOMAIN maps THEN Raise(KeyError(version), maps)
        ELSE IF _type(new_type) \in DOMAIN maps[version]["objects"]
        THEN Raise(DuplicateRegistrationError("STIX Object", _type(new_type)), maps)
        ELSE [outcome |-> Returned,
              maps |-> setitem(maps, version, "objects", _type(new_type), new_type)]

\* _register_marking looking for the identifier in every version's markings
_register_marking_any_version(new_marking, version_arg, maps) ==
    LET version == param_version(version_arg)
        mark_type == _type(new_marking)
        shape == _validate_type(mark_type, version)
        checked == _validate_props(_properties(new_marking), version)
    IN  IF falsy(version) THEN Raise(AttributeError, maps)
        ELSE IF shape # Returned THEN Raise(shape, maps)
        ELSE IF checked # Returned THEN Raise(checked, maps)
        ELSE IF version \notin DOMAIN maps THEN Raise(KeyError(version), maps)
        ELSE IF \E v \in DOMAIN maps : mark_type \in DOMAIN maps[v]["markings"]
        THEN Raise(DuplicateRegistrationError("STIX Marking", mark_type), maps)
        ELSE [outcome |-> Returned,
              maps |-> setitem(maps, version, "markings", mark_type, new_marking)]

\* _register_marking testing for a duplicate before it validates
_register_marking_dup_first(new_marking, version_arg, maps) ==
    LET version == param_version(version_arg)
        mark_type == _type(new_marking)
        shape == _validate_type(mark_type, version)
        checked == _validate_props(_properties(new_marking), version)
    IN  IF falsy(version) THEN Raise(AttributeError, maps)
        ELSE IF version \in DOMAIN maps /\ mark_type \in DOMAIN maps[version]["markings"]
        THEN Raise(DuplicateRegistrationError("STIX Marking", mark_type), maps)
        ELSE IF shape # Returned THEN Raise(shape, maps)
        ELSE IF checked # Returned THEN Raise(checked, maps)
        ELSE IF version \notin DOMAIN maps THEN Raise(KeyError(version), maps)
        ELSE [outcome |-> Returned,
              maps |-> setitem(maps, version, "markings", mark_type, new_marking)]

_register_marking(new_marking, version_arg, maps) ==
    LET version == param_version(version_arg)
        mark_type == _type(new_marking)
        shape == _validate_type(mark_type, version)
        checked == _validate_props(_properties(new_marking), version)
    IN  IF falsy(version) THEN Raise(AttributeError, maps)
        ELSE IF shape # Returned THEN Raise(shape, maps)
        ELSE IF checked # Returned THEN Raise(checked, maps)
        ELSE IF version \notin DOMAIN maps THEN Raise(KeyError(version), maps)
        ELSE IF mark_type \in DOMAIN maps[version]["markings"]
        THEN Raise(DuplicateRegistrationError("STIX Marking", mark_type), maps)
        ELSE [outcome |-> Returned,
              maps |-> setitem(maps, version, "markings", mark_type, new_marking)]

\* _register_observable over one observables dict shared by all versions
_register_observable_shared_dict(new_observable, version_arg, maps) ==
    LET version == param_version(version_arg)
        checked == _validate_props(_properties(new_observable), version)
    IN  IF falsy(version) THEN Raise(AttributeError, maps)
        ELSE IF checked # Returned THEN Raise(checked, maps)
        ELSE IF version \notin DOMAIN maps THEN Raise(KeyError(version), maps)
        ELSE IF _type(new_observable) \in DOMAIN maps[version]["observables"]
        THEN Raise(DuplicateRegistrationError("Cyber Observable",
                                              _type(new_observable)), maps)
        ELSE [outcome |-> Returned,
              maps |-> [v \in DOMAIN maps |->
                          [maps[v] EXCEPT !["observables"] =
                              (_type(new_observable) :> new_observable) @@ @]]]

\* _register_observable over catalogs that come into being on first use
\* (STIX2_OBJ_MAPS a defaultdict)
_register_observable_creates_catalog(new_observable, version_arg, maps) ==
    LET version == param_version(version_arg)
        checked == _validate_props(_properties(new_observable), version)
        grown == IF version \in DOMAIN maps THEN maps
                 ELSE (version :> [ns \in Namespaces |-> EmptyMap]) @@ maps
    IN  IF falsy(version) THEN Raise(AttributeError, maps)
        ELSE IF checked # Returned THEN Raise(checked, maps)
        ELSE IF _type(new_observable) \in DOMAIN grown[version]["observables"]
        THEN Raise(DuplicateRegistrationError("Cyber Observable",
                                              _type(new_observable)), maps)
        ELSE [outcome |-> Returned,
              maps |-> setitem(grown, version, "observables",
                               _type(new_observable), new_observable)]

_register_observable(new_observable, version_arg, maps) ==
    LET version == param_version(version_arg)
        checked == _validate_props(_properties(new_observable), version)
    IN  IF falsy(version) THEN Raise(AttributeError, maps)
        ELSE IF checked # Returned THEN Raise(checked, maps)
        ELSE IF version \notin DOMAIN maps THEN Raise(KeyError(version), maps)
        ELSE IF _type(new_observable) \in DOMAIN maps[version]["observables"]
        THEN Raise(DuplicateRegistrationError("Cyber Observable",
                                              _type(new_observable)), maps)
        ELSE [outcome |-> Returned,
              maps |-> setitem(maps, version, "observables",
                               _type(new_observable), new_observable)]

\* the `if version == "2.1"` block of _register_extension
ext_name_rejected(ext_type, version) ==
    /\ version = "2.1"
    /\ ~ ( \/ endswith(ext_type, sfx_ext)
           \/ startswith(ext_type, pfx_extension_definition) )

\* combined_props without the top-level properties
combined_props_own_only(new_extension) == _properties(new_extension)

\* combined_props of _register_extension
combined_props(new_extension) ==
    dict_merge(_properties(new_extension),
               getattr_toplevel_properties(new_extension))

\* _register_extension storing the class before it validates it
_register_extension_insert_first(new_extension, version_arg, maps) ==
    LET version == param_version(version_arg)
        ext_type == _type(new_extension)
        shape == _validate_type(ext_type, version)
        combined == combined_props(new_extension)
        checked == _validate_props(combined, version)
        stored == IF version \in DOMAIN maps
                     /\ ext_type \notin DOMAIN maps[version]["extensions"]
                  THEN setitem(maps, version, "extensions", ext_type, new_extension)
                  ELSE maps
    IN  IF version \notin DOMAIN maps THEN Raise(KeyError(version), maps)
        ELSE IF ext_type \in DOMAIN maps[version]["extensions"]
        THEN Raise(DuplicateRegistrationError("Extension", ext_type), maps)
        ELSE IF shape # Returned THEN Raise(shape, stored)
        ELSE IF ext_name_rejected(ext_type, version)
        THEN Raise([exc |-> "ValueError", why |-> "invalid-extension-name",
                    name |-> ext_type], stored)
        ELSE IF combined = <<>>
        THEN Raise([exc |-> "ValueError", why |-> "no-properties",
                    name |-> ext_type], stored)
        ELSE IF checked # Returned THEN Raise(checked, stored)
        ELSE [outcome |-> Returned, maps |-> stored]

_register_extension(new_extension, version_arg, maps) ==
    LET version == param_version(version_arg)
        ext_type == _type(new_extension)
        shape == _validate_type(ext_type, version)
        combined == combined_props(new_extension)
        checked == _validate_props(combined, version)
    IN  IF shape # Returned THEN Raise(shape, maps)
        ELSE IF ext_name_rejected(ext_type, version)
        THEN Raise([exc |-> "ValueError", why |-> "invalid-extension-name",
                    name |-> ext_type], maps)
        ELSE IF combined = <<>>
        THEN Raise([exc |-> "ValueError", why |-> "no-properties",
                    name |-> ext_type], maps)
        ELSE IF checked # Returned THEN Raise(checked, maps)
        ELSE IF version \notin DOMAIN maps THEN Raise(KeyError(version), maps)
        ELSE IF ext_type \in DOMAIN maps[version]["extensions"]
        THEN Raise(DuplicateRegistrationError("Extension", ext_type), maps)
        ELSE [outcome |-> Returned,
              maps |-> setitem(maps, version, "extensions", ext_type, new_extension)]

----------------------------------------------------------------------------
(* The registry as a state machine *)

\* the version arguments a caller passes; "2.2" has no catalog
VersionArgs == {"2.0", "2.1", "2.2", None, Omitted}

Ops == {"_register_object", "_register_marking", "_register_observable",
        "_register_extension"}

RegInit ==
    /\ STIX2_OBJ_MAPS = InitialMaps
    /\ DEFAULT_VERSION = LoadTimeDefaultVersion
    /\ call = [op |-> "none"]
    /\ outcome = NotRun
    /\ ncalls = 0

\* the validator is not under test in the registry specification
ValidatorIdle ==
    /\ props_map = <<>>
    /\ v_version = "2.1"
    /\ ref_result = NotRun
    /\ props_result = NotRun
    /\ again_result = NotRun

\* no thread but the caller's
ThreadsIdle ==
    /\ thread = <<>>
    /\ writes = <<>>
    /\ raced = FALSE

Init == RegInit /\ ValidatorIdle /\ ThreadsIdle

\* one call of operation op, ended as r
Called(op, new_type, version_arg, r) ==
    /\ ncalls < MaxCalls
    /\ ncalls' = ncalls + 1
    /\ call' = [op |-> op, new_type |-> new_type, version |-> version_arg]
    /\ outcome' = r.outcome
    /\ STIX2_OBJ_MAPS' = r.maps
    /\ UNCHANGED <<DEFAULT_VERSION, val_vars, thr_vars>>

RegisterObject ==
    \E c \in Classes, v \in VersionArgs :
        Called("_register_object", c, v, _register_object(c, v, STIX2_OBJ_MAPS))

RegisterMarking ==
    \E c \in Classes, v \in VersionArgs :
        Called("_register_marking", c, v, _register_marking(c, v, STIX2_OBJ_MAPS))

RegisterObservable ==
    \E c \in Classes, v \in VersionArgs :
        Called("_register_observable", c, v,
               _register_observable(c, v, STIX2_OBJ_MAPS))

RegisterExtension ==
    \E c \in Classes, v \in VersionArgs :
        Called("_register_extension", c, v,
               _register_extension(c, v, STIX2_OBJ_MAPS))

\* the application assigns stix2.version.DEFAULT_VERSION
SetDefaultVersion ==
    /\ ncalls < MaxCalls
    /\ \E v \in KnownVersions :
           /\ v # DEFAULT_VERSION
           /\ DEFAULT_VERSION' = v
    /\ UNCHANGED <<STIX2_OBJ_MAPS, call, outcome, ncalls, val_vars, thr_vars>>

Next ==
    \/ RegisterObject
    \/ RegisterMarking
    \/ RegisterObservable
    \/ RegisterExtension
    \/ SetDefaultVersion

Spec == Init /\ [][Next]_vars

----------------------------------------------------------------------------
(* The validator on its own *)

ValidateInit ==
    /\ RegInit
    /\ ThreadsIdle
    /\ props_map \in PropMaps
    /\ v_version \in Versions
    /\ ref_result = NotRun
    /\ props_result = NotRun
    /\ again_result = NotRun

RunValidateRefProps ==
    /\ ref_result = NotRun
    /\ ref_result' = _validate_ref_props(props_map, v_version)
    /\ UNCHANGED <<props_map, v_version, props_result, again_result,
                   reg_vars, thr_vars>>

\* _validate_props removing from the mapping the entries it has looked at
RunValidatePropsConsuming ==
    /\ props_result = NotRun
    /\ props_result' = _validate_props(props_map, v_version)
    /\ props_map' = <<>>
    /\ UNCHANGED <<v_version, ref_result, again_result, reg_vars, thr_vars>>

RunValidateProps ==
    /\ props_result = NotRun
    /\ props_result' = _validate_props(props_map, v_version)
    /\ UNCHANGED <<props_map, v_version, ref_result, again_result,
                   reg_vars, thr_vars>>

ValidateNext == RunValidateRefProps \/ RunValidateProps

SpecValidate == ValidateInit /\ [][ValidateNext]_vars

----------------------------------------------------------------------------
(* Vocabulary of the properties *)

\* the step is a registration call (call', outcome' describe it)
IsCall == ncalls' = ncalls + 1

\* the namespace and the category label of an operation
NamespaceOf(op) ==
    CASE op = "_register_object" -> "objects"
      [] op = "_register_marking" -> "markings"
      [] op = "_register_observable" -> "observables"
      [] op = "_register_extension" -> "extensions"

CategoryOf(op) ==
    CASE op = "_register_object" -> "STIX Object"
      [] op = "_register_marking" -> "STIX Marking"
      [] op = "_register_observable" -> "Cyber Observable"
      [] op = "_register_extension" -> "Extension"

\* the version a call is made under
VersionOf(c) == param_version(c.version)

\* identifier id is mapped in namespace ns of version v of maps
Mapped(maps, v, ns, id) ==
    /\ v \in DOMAIN maps
    /\ id \in DOMAIN maps[v][ns]

\* the number of entries of all catalogs
Size(maps) ==
    Cardinality({<<v, ns, id>> \in
        (DOMAIN maps) \X Namespaces \X {_type(c) : c \in Classes} :
            Mapped(maps, v, ns, id)})

\* every check that precedes the duplicate test of operation op passes for
\* class c under version v
ChecksPass(op, c, v) ==
    /\ op = "_register_object" => issubclass_DomainObject(c)
    /\ op \in {"_register_marking", "_register_extension"} =>
           _validate_type(_type(c), v) = Returned
    /\ op = "_register_extension" =>
           /\ ~ ext_name_rejected(_type(c), v)
           /\ combined_props(c) # <<>>
    /\ _validate_props(IF op = "_register_extension" THEN combined_props(c)
                       ELSE _properties(c), v) = Returned

----------------------------------------------------------------------------
(* Properties of the registry *)

\* C1: once an identifier is mapped to a class in a namespace of a version
\* it stays mapped to that class in every later state: no step overwrites
\* or removes an entry (so each entry is inserted at most once).
C1_AppendOnly ==
    [][\A v \in DOMAIN STIX2_OBJ_MAPS, ns \in Namespaces :
           \A id \in DOMAIN STIX2_OBJ_MAPS[v][ns] :
               /\ Mapped(STIX2_OBJ_MAPS', v, ns, id)
               /\ STIX2_OBJ_MAPS'[v][ns][id] = STIX2_OBJ_MAPS[v][ns][id]]_vars

\* a second class was offered under a mapped identifier and the first stayed
C1_Witness ==
    /\ outcome.exc = "DuplicateRegistrationError"
    /\ call.op = "_register_object"
    /\ Mapped(STIX2_OBJ_MAPS, VersionOf(call), "objects", _type(call.new_type))
    /\ STIX2_OBJ_MAPS[VersionOf(call)]["objects"][_type(call.new_type)]
           # call.new_type

\* C2: a call whose checks all pass fails with DuplicateRegistrationError
\* (category label of its namespace, the identifier) if and only if the
\* identifier is already mapped in the same namespace of the same version;
\* when it is mapped only under another version or in another namespace the
\* call succeeds.
C2_DuplicateIffPresent ==
    [][IsCall =>
        LET op == call'.op
            c == call'.new_type
            v == VersionOf(call')
            present == Mapped(STIX2_OBJ_MAPS, v, NamespaceOf(op), _type(c))
        IN  ChecksPass(op, c, v) =>
              /\ (outcome'.exc = "DuplicateRegistrationError") <=> present
              /\ present =>
                   outcome' = [exc |-> "DuplicateRegistrationError",
                               category |-> CategoryOf(op), type |-> _type(c)]
              /\ (~ present /\ v \in KnownVersions) => outcome' = Returned]_vars

\* a call succeeded although its identifier is mapped under the other
\* version and in another namespace of its own version
C2_Witness ==
    /\ outcome = Returned
    /\ call.op = "_register_marking"
    /\ \E v \in KnownVersions \ {VersionOf(call)} :
           Mapped(STIX2_OBJ_MAPS, v, "markings", _type(call.new_type))

\* C3: a registration call that fails, whatever the failure, leaves every
\* catalog of every version as it was.
C3_FailureChangesNothing ==
    [][(IsCall /\ outcome' # Returned) =>
           STIX2_OBJ_MAPS' = STIX2_OBJ_MAPS]_vars

\* a call failed validation while the catalogs held an entry
C3_Witness ==
    /\ call.op = "_register_extension"
    /\ outcome.exc = "ValueError"
    /\ outcome.why = "not-a-reference"
    /\ Size(STIX2_OBJ_MAPS) = 1

\* C4: a successful registration of class c under version v by operation op
\* maps the identifier of c to c in the namespace of op of version v and
\* changes nothing else: no other identifier of that namespace, no other
\* namespace of v, no other version.
C4_SuccessChangesOnePlace ==
    [][(IsCall /\ outcome' = Returned) =>
        LET c == call'.new_type
            v == VersionOf(call')
            ns == NamespaceOf(call'.op)
        IN  /\ DOMAIN STIX2_OBJ_MAPS' = DOMAIN STIX2_OBJ_MAPS
            /\ Mapped(STIX2_OBJ_MAPS', v, ns, _type(c))
            /\ STIX2_OBJ_MAPS'[v][ns][_type(c)] = c
            /\ \A w \in DOMAIN STIX2_OBJ_MAPS, n \in Namespaces :
                 \A id \in {_type(k) : k \in Classes} :
                   <<w, n, id>> # <<v, ns, _type(c)>> =>
                     /\ Mapped(STIX2_OBJ_MAPS', w, n, id)
                            <=> Mapped(STIX2_OBJ_MAPS, w, n, id)
                     /\ Mapped(STIX2_OBJ_MAPS, w, n, id) =>
                            STIX2_OBJ_MAPS'[w][n][id] = STIX2_OBJ_MAPS[w][n][id]]_vars

\* a registration succeeded into catalogs that already held an entry
C4_Witness ==
    /\ outcome = Returned
    /\ call.op = "_register_observable"
    /\ Size(STIX2_OBJ_MAPS) = 2

----------------------------------------------------------------------------
(* Properties of the validator *)

\* the name ends in the text `_ref` / `_refs`
EndsIn_ref(name) == endswith(name, <<"_", "r", "e", "f">>)
EndsIn_refs(name) == endswith(name, <<"_", "r", "e", "f", "s">>)

\* the reference shapes the specification accepts under a version
AcceptedShapes(version) ==
    IF version = "2.0" THEN {"ObjectReferenceProperty", "ReferenceProperty"}
    ELSE {"ReferenceProperty"}

\* C5: under every version but "2.0", unknown ones included, a property
\* mapping with a name that does not begin with an alphabetic character
\* fails validation; under "2.0" no name causes a naming failure, so a
\* mapping that fails there fails by the reference rule.
C5_NamingRule ==
    props_result # NotRun =>
        /\ ( /\ v_version # "2.0"
             /\ \E i \in 1..Len(props_map) :
                    \/ props_map[i].name = <<>>
                    \/ props_map[i].name[1] \notin Alpha )
           => props_result.exc = "ValueError"
        /\ (v_version = "2.0" /\ props_result # Returned)
           => /\ props_result.why \in {"not-a-reference", "not-a-reference-list"}
              /\ props_result.prop_name \in Keys(props_map)

\* `1bad` was rejected under a version the table does not know
C5_Witness ==
    /\ v_version = "2.2"
    /\ props_map = <<E(n_1bad, StringProperty)>>
    /\ props_result.exc = "ValueError"

\* C6: a property whose name ends in `_ref` passes the reference check if
\* and only if its definition is an instance of an accepted shape of the
\* version: a definition that is not accepted makes the check fail, the
\* check never blames an accepted one, and a mapping of `_ref` names only
\* passes exactly when all its definitions are accepted.
C6_RefRule ==
    ref_result # NotRun =>
        LET accepted(i) == props_map[i].obj.cls \in AcceptedShapes(v_version)
            refs == {i \in 1..Len(props_map) : EndsIn_ref(props_map[i].name)}
        IN  /\ (\E i \in refs : ~ accepted(i)) => ref_result.exc = "ValueError"
            /\ \A i \in refs :
                 (ref_result # Returned
                    /\ ref_result.prop_name = props_map[i].name) => ~ accepted(i)
            /\ refs = 1..Len(props_map) =>
                 (ref_result = Returned <=> \A i \in refs : accepted(i))

\* an ObjectReferenceProperty named x_ref was rejected under an unknown version
C6_Witness ==
    /\ v_version = "2.2"
    /\ props_map = <<E(n_x_ref, ObjectReferenceProperty)>>
    /\ ref_result.exc = "ValueError"

\* C7: a property whose name ends in `_refs` passes the reference check if
\* and only if its definition is a ListProperty whose contained shape is
\* accepted under the version; a definition that is no list fails whatever
\* it contains or is.
C7_RefsRule ==
    ref_result # NotRun =>
        LET obj(i) == props_map[i].obj
            accepted(i) ==
                /\ obj(i).cls = "ListProperty"
                /\ obj(i).contained.cls \in AcceptedShapes(v_version)
            refss == {i \in 1..Len(props_map) : EndsIn_refs(props_map[i].name)}
        IN  /\ (\E i \in refss : ~ accepted(i)) => ref_result.exc = "ValueError"
            /\ \A i \in refss :
                 (ref_result # Returned
                    /\ ref_result.prop_name = props_map[i].name) => ~ accepted(i)
            /\ refss = 1..Len(props_map) =>
                 (ref_result = Returned <=> \A i \in refss : accepted(i))

\* a ReferenceProperty, itself an accepted shape, was rejected as x_refs
C7_Witness ==
    /\ v_version = "2.1"
    /\ props_map = <<E(n_x_refs, ReferenceProperty)>>
    /\ ref_result.exc = "ValueError"
    /\ ref_result.why = "not-a-reference-list"

\* C8: a property mapping in which no name ends in `_ref` or `_refs` is
\* never rejected by the reference check, whatever its definitions are.
C8_OtherNamesExempt ==
    (ref_result # NotRun
       /\ \A i \in 1..Len(props_map) :
              ~ EndsIn_ref(props_map[i].name) /\ ~ EndsIn_refs(props_map[i].name))
    => ref_result = Returned

----------------------------------------------------------------------------
(* Properties of _register_extension *)

Hex == Digit \cup {"a", "b", "c", "d", "e", "f"}

\* s is a UUID-shaped token: 8-4-4-4-12 hexadecimal digits
UuidShaped(s) ==
    /\ Len(s) = 36
    /\ \A i \in 1..36 :
           IF i \in {9, 14, 19, 24} THEN s[i] = "-" ELSE s[i] \in Hex

\* the identifier ends with `-ext` or is `extension-definition--<UUID>`
ExtensionName(id) ==
    \/ endswith(id, sfx_ext)
    \/ /\ startswith(id, pfx_extension_definition)
       /\ UuidShaped(SubSeq(id, Len(pfx_extension_definition) + 1, Len(id)))

\* C9: under version "2.1" _register_extension registers a class only if
\* its identifier ends with `-ext` or is `extension-definition--` followed
\* by a UUID-shaped token; any other identifier fails with a ValueError and
\* is not inserted.
C9_ExtensionNameChecked ==
    ( /\ call.op = "_register_extension"
      /\ VersionOf(call) = "2.1"
      /\ ~ ExtensionName(_type(call.new_type)) )
    => /\ outcome.exc = "ValueError"
       /\ ~ Mapped(STIX2_OBJ_MAPS, "2.1", "extensions", _type(call.new_type))

\* C10: _register_extension fails whenever the class has no own and no
\* top-level property, whatever its identifier and the version, and leaves
\* the catalogs unchanged; a class with no own property but a top-level one
\* is not rejected for having no property.
C10_EmptyExtensionRejected ==
    [][(IsCall /\ call'.op = "_register_extension") =>
        LET c == call'.new_type
        IN  /\ (_properties(c) = <<>> /\ getattr_toplevel_properties(c) = <<>>)
               => /\ outcome'.exc = "ValueError"
                  /\ STIX2_OBJ_MAPS' = STIX2_OBJ_MAPS
            /\ (_properties(c) = <<>> /\ getattr_toplevel_properties(c) # <<>>)
               => ~ (outcome'.exc = "ValueError" /\ outcome'.why = "no-properties")]_vars

\* a class with a valid identifier and no property was refused, and one
\* holding only a top-level property is registered
C10_Witness ==
    /\ call.op = "_register_extension"
    /\ call.new_type = "NoProps"
    /\ outcome.exc = "ValueError"
    /\ outcome.why = "no-properties"
    /\ Mapped(STIX2_OBJ_MAPS, VersionOf(call), "extensions", id_ext_def_zzz)

----------------------------------------------------------------------------
(* Order of the checks *)

\* C11: _register_object given a class that is no _DomainObject subclass
\* fails with the declaration error whatever the version argument, the
\* properties of the class and the content of the catalogs: no later check
\* (version, property validation, duplicate) decides the outcome.
C11_DeclarationCheckFirst ==
    (call.op = "_register_object" /\ ~ issubclass_DomainObject(call.new_type))
    => outcome = [exc |-> "ValueError", why |-> "not-custom-object",
                  name |-> call.new_type]

\* an undeclared class with non-conforming properties was offered under an
\* identifier that is already registered, and got the declaration error
C11_Witness ==
    /\ call.op = "_register_object"
    /\ call.new_type = "Undeclared"
    /\ _validate_props(_properties("Undeclared"), VersionOf(call)) # Returned
    /\ Mapped(STIX2_OBJ_MAPS, VersionOf(call), "objects", _type("Undeclared"))
    /\ outcome.exc = "ValueError"
    /\ outcome.why = "not-custom-object"

----------------------------------------------------------------------------
(* The version argument *)

\* the result of operation op on class c with version argument v
Apply(op, c, v, maps) ==
    CASE op = "_register_object" -> _register_object(c, v, maps)
      [] op = "_register_marking" -> _register_marking(c, v, maps)
      [] op = "_register_observable" -> _register_observable(c, v, maps)
      [] op = "_register_extension" -> _register_extension(c, v, maps)

\* C12: a call that leaves the version out ends, and leaves the catalogs,
\* exactly as the same call given the value version.DEFAULT_VERSION holds
\* at the time of the call.
C12_OmittedIsCurrentDefault ==
    [][(IsCall /\ call'.version = Omitted) =>
        LET r == Apply(call'.op, call'.new_type, DEFAULT_VERSION, STIX2_OBJ_MAPS)
        IN  /\ outcome' = r.outcome
            /\ STIX2_OBJ_MAPS' = r.maps]_vars

\* C13: a call given None as the version ends, and leaves the catalogs,
\* exactly as the same call given the default version; it does not fail
\* for want of a version.
C13_NoneIsDefault ==
    [][(IsCall /\ call'.version = None) =>
        LET r == Apply(call'.op, call'.new_type, DEFAULT_VERSION, STIX2_OBJ_MAPS)
        IN  /\ outcome' = r.outcome
            /\ STIX2_OBJ_MAPS' = r.maps]_vars

\* maps with identifier id taken out of namespace ns of version v
Without(maps, v, ns, id) ==
    [maps EXCEPT ![v][ns] = [k \in (DOMAIN @) \ {id} |-> @[k]]]

\* C14: the duplicate test comes after every validation check.  A call
\* whose identifier is already registered in its namespace and version but
\* whose class fails a check ends with that ValueError, never with
\* DuplicateRegistrationError; DuplicateRegistrationError is raised only for
\* a call that would have inserted had the identifier not been there.
C14_DuplicateCheckLast ==
    [][IsCall =>
        LET op == call'.op
            c == call'.new_type
            v == VersionOf(call')
            ns == NamespaceOf(op)
            present == Mapped(STIX2_OBJ_MAPS, v, ns, _type(c))
        IN  /\ (present /\ ~ ChecksPass(op, c, v)) => outcome'.exc = "ValueError"
            /\ outcome'.exc = "DuplicateRegistrationError" =>
                 /\ present
                 /\ ChecksPass(op, c, v)
                 /\ Apply(op, c, call'.version,
                          Without(STIX2_OBJ_MAPS, v, ns, _type(c))).outcome
                        = Returned]_vars

\* a class that fails validation was offered as a marking under an
\* identifier already registered there, and got the validation error
C14_Witness ==
    /\ call.op = "_register_marking"
    /\ Mapped(STIX2_OBJ_MAPS, VersionOf(call), "markings", _type(call.new_type))
    /\ STIX2_OBJ_MAPS[VersionOf(call)]["markings"][_type(call.new_type)]
           # call.new_type
    /\ ~ ChecksPass("_register_marking", call.new_type, VersionOf(call))
    /\ outcome.exc = "ValueError"

----------------------------------------------------------------------------
(* Two threads registering at once.  Nothing in the module takes a lock,  *)
(* so a thread may be preempted between its `in` test on the catalog and   *)
(* its assignment to it; everything before the test reads no shared state. *)

Threads == {"t1", "t2"}

\* the calls the threads make
ThreadClasses == {"NameOnly", "WithRef", "DigitProp"}
ThreadVersions == {"2.0", "2.1"}

ThreadInit ==
    /\ RegInit
    /\ ValidatorIdle
    /\ thread \in [Threads -> [pc : {"ready"}, op : Ops, new_type : ThreadClasses,
                               version : ThreadVersions, outcome : {NotRun}]]
    /\ writes = <<>>
    /\ raced = FALSE

\* the catalog entry the call of thread t is about
Target(t) ==
    <<VersionOf(thread[t]), NamespaceOf(thread[t].op), _type(thread[t].new_type)>>

\* thread t runs its operation up to and including the duplicate test
ThreadCheck(t) ==
    /\ thread[t].pc = "ready"
    /\ LET r == Apply(thread[t].op, thread[t].new_type, thread[t].version,
                      STIX2_OBJ_MAPS)
       IN  thread' = [thread EXCEPT ![t] =
                        IF r.outcome = Returned
                        THEN [@ EXCEPT !.pc = "checked"]
                        ELSE [@ EXCEPT !.pc = "done", !.outcome = r.outcome]]
    /\ UNCHANGED <<reg_vars, val_vars, writes, raced>>

\* thread t, having found no entry, assigns and returns
ThreadStore(t) ==
    /\ thread[t].pc = "checked"
    /\ STIX2_OBJ_MAPS' =
           setitem(STIX2_OBJ_MAPS, VersionOf(thread[t]), NamespaceOf(thread[t].op),
                   _type(thread[t].new_type), thread[t].new_type)
    /\ thread' = [thread EXCEPT ![t] = [@ EXCEPT !.pc = "done", !.outcome = Returned]]
    /\ writes' = Append(writes, t)
    /\ raced' = ( \/ raced
                  \/ \E u \in Threads \ {t} :
                         thread[u].pc = "checked" /\ Target(u) = Target(t) )
    /\ UNCHANGED <<DEFAULT_VERSION, call, outcome, ncalls, val_vars>>

ThreadNext == \E t \in Threads : ThreadCheck(t) \/ ThreadStore(t)

SpecThreads == ThreadInit /\ [][ThreadNext]_vars

\* both threads are done, their calls were about the same entry, and both
\* classes pass every check of their operation
RaceSettled ==
    /\ \A t \in Threads : thread[t].pc = "done"
    /\ Target("t1") = Target("t2")
    /\ thread["t1"].new_type # thread["t2"].new_type
    /\ \A t \in Threads :
           ChecksPass(thread[t].op, thread[t].new_type, VersionOf(thread[t]))

Succeeded == {t \in Threads : thread[t].outcome = Returned}

\* C15 as stated: of two threads registering two valid classes under the
\* same identifier, namespace and version, exactly one succeeds and the
\* other fails with DuplicateRegistrationError, in every interleaving.
C15_ExactlyOneSucceeds ==
    RaceSettled =>
        /\ Cardinality(Succeeded) = 1
        /\ \A t \in Threads \ Succeeded :
               thread[t].outcome.exc = "DuplicateRegistrationError"

\* C15 as amended: at least one of the two calls succeeds and a call that
\* does not succeed fails with DuplicateRegistrationError; exactly one
\* succeeds unless both threads made their duplicate test before either
\* stored, in which case both succeed and the entry holds the class stored
\* last, the first store being overwritten.
C15_OneSucceedsUnlessRaced ==
    RaceSettled =>
        LET v == Target("t1")[1]
            ns == Target("t1")[2]
            id == Target("t1")[3]
        IN  /\ Succeeded # {}
            /\ \A t \in Threads \ Succeeded :
                   thread[t].outcome =
                       [exc |-> "DuplicateRegistrationError",
                        category |-> CategoryOf(thread[t].op), type |-> id]
            /\ (Cardinality(Succeeded) = 2) <=> raced
            /\ writes # <<>>
            /\ Mapped(STIX2_OBJ_MAPS, v, ns, id)
            /\ STIX2_OBJ_MAPS[v][ns][id] = thread[writes[Len(writes)]].new_type

\* both threads returned normally and the first class stored is gone
C15_Witness ==
    /\ RaceSettled
    /\ raced
    /\ Succeeded = Threads
    /\ STIX2_OBJ_MAPS[Target("t1")[1]][Target("t1")[2]][Target("t1")[3]]
           # thread[writes[1]].new_type

----------------------------------------------------------------------------
(* The property mapping _register_extension validates *)

\* the own properties that have no top-level definition, then every
\* top-level property: the union in which the top-level definition wins
TopLevelWins(c) ==
    SelectSeq(_properties(c),
              LAMBDA e : e.name \notin Keys(getattr_toplevel_properties(c)))
    \o getattr_toplevel_properties(c)

\* C16: _register_extension validates the union of the own and the
\* top-level properties with the top-level definition standing for a name
\* defined in both: a call that gets as far as property validation is
\* rejected by it exactly when that union does not conform.
C16_TopLevelDefinitionValidated ==
    [][(IsCall /\ call'.op = "_register_extension") =>
        LET c == call'.new_type
            v == VersionOf(call')
        IN  ( /\ _validate_type(_type(c), v) = Returned
              /\ ~ ext_name_rejected(_type(c), v)
              /\ TopLevelWins(c) # <<>> )
            => ( ( /\ outcome'.exc = "ValueError"
                   /\ outcome'.why \in {"not-alpha", "not-a-reference",
                                        "not-a-reference-list"} )
                 <=> _validate_props(TopLevelWins(c), v) # Returned )]_vars

\* a class whose own x_ref is no reference and whose top-level x_ref is one
\* was registered as an extension
C16_Witness ==
    /\ call.op = "_register_extension"
    /\ call.new_type = "TopRef"
    /\ Get(_properties("TopRef"), n_x_ref) = StringProperty
    /\ Get(getattr_toplevel_properties("TopRef"), n_x_ref) = ReferenceProperty
    /\ outcome = Returned
    /\ Mapped(STIX2_OBJ_MAPS, VersionOf(call), "extensions", _type("TopRef"))
    /\ STIX2_OBJ_MAPS[VersionOf(call)]["extensions"][_type("TopRef")] = "TopRef"

----------------------------------------------------------------------------
(* The validator called while registrations go on *)

\* the mappings the validator is given: those of the candidate classes
MixedPropMaps ==
    {_properties(c) : c \in {"WithRef", "Undeclared"}}
    \cup {combined_props(c) : c \in {"NonUuidExt", "OwnRef"}}

MixedInit ==
    /\ RegInit
    /\ ThreadsIdle
    /\ props_map \in MixedPropMaps
    /\ v_version \in KnownVersions
    /\ ref_result = NotRun
    /\ props_result = NotRun
    /\ again_result = NotRun

\* _validate_props called once more with the same arguments
RunValidatePropsAgain ==
    /\ props_result # NotRun
    /\ again_result = NotRun
    /\ again_result' = _validate_props(props_map, v_version)
    /\ UNCHANGED <<props_map, v_version, ref_result, props_result,
                   reg_vars, thr_vars>>

MixedNext ==
    \/ RunValidateRefProps
    \/ RunValidateProps
    \/ RunValidatePropsAgain
    \/ (ncalls < MaxBetween /\ RegisterObject)
    \/ (ncalls < MaxBetween /\ RegisterMarking)
    \/ (ncalls < MaxBetween /\ RegisterObservable)
    \/ (ncalls < MaxBetween /\ RegisterExtension)

SpecMixed == MixedInit /\ [][MixedNext]_vars

----------------------------------------------------------------------------
(* The versions that have a catalog *)

\* C18: the set of versions that have a catalog never changes; a call
\* naming a version without a catalog does not succeed, creates no catalog
\* and leaves every catalog as it was, even when the class passes every
\* validation check under that version.
C18_CatalogVersionsFixed ==
    [][ /\ DOMAIN STIX2_OBJ_MAPS' = DOMAIN STIX2_OBJ_MAPS
        /\ DOMAIN STIX2_OBJ_MAPS' = KnownVersions
        /\ (IsCall /\ VersionOf(call') \notin DOMAIN STIX2_OBJ_MAPS)
           => /\ outcome' \notin {Returned, NotRun}
              /\ STIX2_OBJ_MAPS' = STIX2_OBJ_MAPS ]_vars

\* a class that conforms under the unknown version "2.2" was refused there
\* for want of a catalog, the catalogs holding an entry already
C18_Witness ==
    /\ call.op = "_register_observable"
    /\ call.version = "2.2"
    /\ ChecksPass(call.op, call.new_type, "2.2")
    /\ outcome = [exc |-> "KeyError", key |-> "2.2"]
    /\ Size(STIX2_OBJ_MAPS) = 1
    /\ DOMAIN STIX2_OBJ_MAPS = KnownVersions

====
